---- MODULE Spec2Model ----
(***************************************************************************)
(* A model of two visitors of the oxc toolchain:                           *)
(*                                                                         *)
(*  - PeepholeSubstituteAlternateSyntax (oxc_minifier): the traversal of   *)
(*    one program by the pass, one action per Traverse hook the pass       *)
(*    implements (Spec);                                                   *)
(*  - TransformerImpl (oxc_transformer): the composer that forwards every  *)
(*    hook to its member passes (TSpec);                                   *)
(*  - the conversion of an import specifier of oxc_module_lexer to the     *)
(*    object handed to JavaScript (napi/parser, LSpec).                    *)
(*                                                                         *)
(* AST nodes are records [k, a, b, sp, kids]:                              *)
(*    k    the node kind                                                   *)
(*    a    name / operator / literal text / declaration kind               *)
(*    b    for an identifier: what the scope table resolves it to          *)
(*         ("global": unresolved, the intrinsic; "local": a symbol)        *)
(*    sp   the span: 1 for a parsed node, SPAN for a synthesized one       *)
(*    kids the child nodes, in source order                                *)
(***************************************************************************)
EXTENDS Integers, Sequences, FiniteSets, TLC

VARIABLES
    options,           \* PeepholeSubstituteAlternateSyntax.options
    in_define_export,  \* PeepholeSubstituteAlternateSyntax.in_define_export
    changed,           \* PeepholeSubstituteAlternateSyntax.changed
    program,           \* the Program being traversed (mutated in place)
    todo,              \* the walk still to do: <<hook, path>> in order
    nbuilds,           \* how many times build() was called on the program
    ev,                \* history: the last hook run, the node before and after
    x0_typescript,     \* TransformerImpl.x0_typescript is Some
    thook,             \* the TransformerImpl hook last invoked by the walk
    tcalls,            \* the member calls it made, in order: <<pass, version>>
    tversion,          \* how many times the passes replaced the node meanwhile
    is_typescript,     \* program.source_type.is_typescript()
    arrow_in,          \* history: the arrow as exit_arrow_function_expression got it
    arrow,             \* the arrow exit_arrow_function_expression was called on
    tstate,            \* build_with_symbols_and_scopes: walking, returned, panicked
    import_specifier,  \* the oxc_module_lexer::ImportSpecifier to convert
    dto                \* the ModuleLexerImportSpecifier made from it

pvars == <<options, in_define_export, changed, program, todo, nbuilds, ev>>
tvars == <<x0_typescript, thook, tcalls, tversion, is_typescript, arrow_in, arrow,
           tstate>>
lvars == <<import_specifier, dto>>
vars == <<options, in_define_export, changed, program, todo, nbuilds, ev,
          x0_typescript, thook, tcalls, tversion, is_typescript, arrow_in, arrow,
          tstate, import_specifier, dto>>

----------------------------------------------------------------------------
(* Bounds of the model *)

MaxArgs == 2
MaxDeclarators == 2
MaxBlockDepth == 3
MaxBuilds == 2
MaxStatements == 3

(* oxc_span::SPAN, the span of a synthesized node *)
SPAN == 0

----------------------------------------------------------------------------
(* The AST *)

Mk(k, a, b, kids) == [k |-> k, a |-> a, b |-> b, sp |-> 1, kids |-> kids]
Syn(k, a, b, kids) == [k |-> k, a |-> a, b |-> b, sp |-> SPAN, kids |-> kids]

Ident(name, sym) == Mk("Ident", name, sym, <<>>)
Target(name, sym) == Mk("Target", name, sym, <<>>)
BoolLit(v) == Mk("BoolLit", v, "", <<>>)
NumLit(v) == Mk("NumLit", v, "", <<>>)
StrLit(v) == Mk("StrLit", v, "", <<>>)
Unary(op, e) == Mk("Unary", op, "", <<e>>)
Binary(op, l, r) == Mk("Binary", op, "", <<l, r>>)
Call(callee, args) == Mk("Call", "", "", <<callee>> \o args)
StaticMember(obj, prop) == Mk("StaticMember", prop, "", <<obj>>)
ComputedMember(obj, prop) == Mk("ComputedMember", "", "", <<obj, StrLit(prop)>>)
Object(vals) == Mk("Object", "", "", vals)
Update(t) == Mk("Update", "++", "", <<t>>)
Assign(t, e) == Mk("Assign", "+=", "", <<t, e>>)
Block(body) == Mk("Block", "", "", body)
ExprStmt(e) == Mk("ExprStmt", "", "", <<e>>)
Return(arg) == Mk("Return", "", "", arg)
Declarator(kind, init) == Mk("Declarator", kind, "x", init)
VarDecl(kind, inits) ==
    Mk("VarDecl", kind, "", [i \in 1..Len(inits) |-> Declarator(kind, inits[i])])
FunctionDecl(body) == Mk("FunctionDecl", "f", "", body)
If(test, cons) == Mk("If", "", "", <<test, cons>>)
ForIn(t, e, body) == Mk("ForIn", "", "", <<t, e, body>>)
Program(body) == Mk("Program", "", "", body)

ExprKinds == {"Ident", "BoolLit", "NumLit", "StrLit", "Unary", "Binary", "Call",
              "StaticMember", "ComputedMember", "Object", "Update", "Assign"}
LiteralKinds == {"BoolLit", "NumLit", "StrLit"}

RECURSIVE NodeAt(_, _)
NodeAt(t, p) == IF p = <<>> THEN t ELSE NodeAt(t.kids[Head(p)], Tail(p))

RECURSIVE ReplaceAt(_, _, _)
ReplaceAt(t, p, n) ==
    IF p = <<>> THEN n
    ELSE [t EXCEPT !.kids[Head(p)] = ReplaceAt(t.kids[Head(p)], Tail(p), n)]

RECURSIVE Paths(_)
Paths(t) ==
    {<<>>} \cup UNION {{<<i>> \o q : q \in Paths(t.kids[i])} : i \in 1..Len(t.kids)}

Front(p) == SubSeq(p, 1, Len(p) - 1)

----------------------------------------------------------------------------
(* Helpers of the AST and of the traversal context that the pass calls *)

(* TraverseCtx::is_expression_undefined: a reference named `undefined` that
   the scope table leaves to the intrinsic, or `void <literal>` *)
is_expression_undefined(expr) ==
    \/ expr.k = "Ident" /\ expr.a = "undefined" /\ expr.b = "global"
    \/ expr.k = "Unary" /\ expr.a = "void" /\ expr.kids[1].k \in LiteralKinds

(* Expression::is_undefined: called on the bare expression, with no access to
   the context or the scope table: the identifier is matched by its name *)
is_undefined(expr) == expr.k = "Ident" /\ expr.a = "undefined"

(* Expression::is_void_0 *)
is_void_0(expr) ==
    expr.k = "Unary" /\ expr.a = "void"
        /\ expr.kids[1].k = "NumLit" /\ expr.kids[1].a = "0"

(* Statement::is_declaration *)
is_declaration(stmt) == stmt.k \in {"VarDecl", "FunctionDecl", "ClassDecl"}

(* Expression::is_specific_string_literal *)
is_specific_string_literal(expr, s) == expr.k = "StrLit" /\ expr.a = s

(* ctx.ast.void_0() *)
void_0 == Syn("Unary", "void", "", <<Syn("NumLit", "0", "", <<>>)>>)

----------------------------------------------------------------------------
(* PeepholeSubstituteAlternateSyntax: the rewrites *)

compress_undefined_by_name(expr) ==
    IF expr.k = "Ident" /\ expr.a = "undefined"
    THEN [ret |-> TRUE, expr |-> void_0]
    ELSE [ret |-> FALSE, expr |-> expr]

(* Transforms `undefined` => `void 0` *)
compress_undefined(expr) ==
    IF is_expression_undefined(expr)
    THEN [ret |-> TRUE, expr |-> void_0]
    ELSE [ret |-> FALSE, expr |-> expr]

(* Test `Object.defineProperty(exports, ...)`; kids[1] is the callee, the
   arguments follow *)
is_object_define_property_exports(call_expr) ==
    IF ~(Len(call_expr.kids) >= 2 /\ call_expr.kids[2].k = "Ident") THEN FALSE
    ELSE IF call_expr.kids[2].a # "exports" THEN FALSE
    ELSE LET callee == call_expr.kids[1] IN
         /\ callee.k = "StaticMember"
         /\ callee.kids[1].k = "Ident"
         /\ callee.kids[1].a = "Object"
         /\ callee.a = "defineProperty"

RECURSIVE compress_block_any(_)
compress_block_any(stmt) ==
    IF stmt.k = "Block" /\ Len(stmt.kids) = 1
    THEN LET r == compress_block_any(stmt.kids[1])
         IN [stmt |-> r.stmt, changed |-> TRUE, steps |-> r.steps + 1]
    ELSE [stmt |-> stmt, changed |-> FALSE, steps |-> 0]

compress_block_once(stmt) ==
    IF stmt.k = "Block" /\ Len(stmt.kids) = 1 /\ ~is_declaration(stmt.kids[1])
    THEN [stmt |-> stmt.kids[1], changed |-> TRUE, steps |-> 1]
    ELSE [stmt |-> stmt, changed |-> FALSE, steps |-> 0]

RECURSIVE compress_block_first(_)
compress_block_first(stmt) ==
    IF stmt.k = "Block" /\ Len(stmt.kids) >= 1 /\ ~is_declaration(stmt.kids[1])
    THEN LET r == compress_block_first(stmt.kids[1])
         IN [stmt |-> r.stmt, changed |-> TRUE, steps |-> r.steps + 1]
    ELSE [stmt |-> stmt, changed |-> FALSE, steps |-> 0]

(* Remove block from single line blocks: `{ block } -> block`.  The result
   holds the statement, whether self.changed was set, and how many times the
   function called itself. *)
RECURSIVE compress_block(_)
compress_block(stmt) ==
    IF stmt.k = "Block" /\ Len(stmt.kids) = 1 /\ ~is_declaration(stmt.kids[1])
    THEN LET r == compress_block(stmt.kids[1])
         IN [stmt |-> r.stmt, changed |-> TRUE, steps |-> r.steps + 1]
    ELSE [stmt |-> stmt, changed |-> FALSE, steps |-> 0]

compress_boolean_swapped(expr, opts, in_export) ==
    IF expr.k # "BoolLit" THEN [ret |-> FALSE, expr |-> expr]
    ELSE IF opts.booleans /\ ~in_export
    THEN LET num == Syn("NumLit", IF expr.a = "true" THEN "1" ELSE "0", "", <<>>)
         IN [ret |-> TRUE, expr |-> Syn("Unary", "!", "", <<num>>)]
    ELSE [ret |-> FALSE, expr |-> expr]

(* Transforms boolean expression `true` => `!0` `false` => `!1` *)
compress_boolean(expr, opts, in_export) ==
    IF expr.k # "BoolLit" THEN [ret |-> FALSE, expr |-> expr]
    ELSE IF opts.booleans /\ ~in_export
    THEN LET num == Syn("NumLit", IF expr.a = "true" THEN "0" ELSE "1", "", <<>>)
         IN [ret |-> TRUE, expr |-> Syn("Unary", "!", "", <<num>>)]
    ELSE [ret |-> FALSE, expr |-> expr]

(* The closures handed to commutative_pair by compress_typeof_undefined *)
check_a(a) == [some |-> is_specific_string_literal(a, "undefined")]

check_b(b) ==
    IF b.k = "Unary" /\ b.a = "typeof" /\ b.kids[1].k = "Ident"
    THEN [some |-> TRUE, id |-> b.kids[1]]
    ELSE [some |-> FALSE, id |-> b]

commutative_pair_one_way(l, r) ==
    IF check_a(l).some /\ check_b(r).some
    THEN [some |-> TRUE, id |-> check_b(r).id]
    ELSE [some |-> FALSE, id |-> l]

commutative_pair(l, r) ==
    IF check_a(l).some
    THEN IF check_b(r).some
         THEN [some |-> TRUE, id |-> check_b(r).id]
         ELSE [some |-> FALSE, id |-> l]
    ELSE IF check_a(r).some
    THEN IF check_b(l).some
         THEN [some |-> TRUE, id |-> check_b(l).id]
         ELSE [some |-> FALSE, id |-> l]
    ELSE [some |-> FALSE, id |-> l]

(* Compress `typeof foo == "undefined"` into `typeof foo > "u"` *)
compress_typeof_undefined(expr, opts) ==
    IF ~opts.typeofs THEN expr
    ELSE IF expr.a \notin {"==", "==="} THEN expr
    ELSE LET pair == commutative_pair(expr.kids[1], expr.kids[2]) IN
         IF ~pair.some THEN expr
         ELSE LET left == Syn("Unary", "typeof", "", <<pair.id>>)
                  right == Syn("StrLit", "u", "", <<>>)
              IN [k |-> "Binary", a |-> ">", b |-> "", sp |-> expr.sp,
                  kids |-> <<left, right>>]

(* Removes redundant argument of ReturnStatement *)
compress_return_statement(stmt) ==
    IF Len(stmt.kids) > 0 /\ (is_undefined(stmt.kids[1]) \/ is_void_0(stmt.kids[1]))
    THEN [stmt |-> [stmt EXCEPT !.kids = <<>>], changed |-> TRUE]
    ELSE [stmt |-> stmt, changed |-> FALSE]

compress_variable_declarator_any_kind(decl) ==
    IF Len(decl.kids) > 0 /\ is_expression_undefined(decl.kids[1])
    THEN [decl |-> [decl EXCEPT !.kids = <<>>], changed |-> TRUE]
    ELSE [decl |-> decl, changed |-> FALSE]

compress_variable_declarator(decl) ==
    IF decl.a = "const" THEN [decl |-> decl, changed |-> FALSE]
    ELSE IF Len(decl.kids) > 0 /\ is_expression_undefined(decl.kids[1])
    THEN [decl |-> [decl EXCEPT !.kids = <<>>], changed |-> TRUE]
    ELSE [decl |-> decl, changed |-> FALSE]

----------------------------------------------------------------------------
(* oxc_traverse::walk_program: depth first, enter before descent, exit after,
   children in source order.  Only the hooks the pass implements are steps;
   the walk of a node with no hook is its children's steps. *)

(* what walk_statement does after enter_statement, on the statement as the
   hook left it *)
WalkStatement(n, p) ==
    CASE n.k \in {"Block", "FunctionDecl", "Program"} ->
            [i \in 1..Len(n.kids) |-> <<"enter_statement", p \o <<i>>>>]
      [] n.k = "ExprStmt" -> <<<<"enter_expression", p \o <<1>>>>>>
      [] n.k = "Return" ->
            [i \in 1..Len(n.kids) |-> <<"enter_expression", p \o <<i>>>>]
                \o <<<<"exit_return_statement", p>>>>
      [] n.k = "VarDecl" -> <<<<"enter_variable_declaration", p>>>>
      [] n.k = "If" ->
            <<<<"enter_expression", p \o <<1>>>>, <<"enter_statement", p \o <<2>>>>>>
      [] n.k = "ForIn" ->
            <<<<"enter_expression", p \o <<2>>>>, <<"enter_statement", p \o <<3>>>>>>
      [] OTHER -> <<>>

(* what walk_expression does after enter_expression; an assignment target is
   no Expression and gets no enter_expression *)
WalkExpression(n, p) ==
    CASE n.k = "Call" -> <<<<"enter_call_expression", p>>>>
      [] n.k = "Binary" ->
            <<<<"enter_expression", p \o <<1>>>>, <<"enter_expression", p \o <<2>>>>,
              <<"exit_binary_expression", p>>>>
      [] n.k \in {"Unary", "StaticMember"} -> <<<<"enter_expression", p \o <<1>>>>>>
      [] n.k \in {"ComputedMember", "Object"} ->
            [i \in 1..Len(n.kids) |-> <<"enter_expression", p \o <<i>>>>]
      [] n.k = "Assign" -> <<<<"enter_expression", p \o <<2>>>>>>
      [] OTHER -> <<>>

(* walk_call_expression after enter_call_expression: callee, then the
   arguments in index order, then the exit hook *)
WalkCall(n, p) ==
    [i \in 1..Len(n.kids) |-> <<"enter_expression", p \o <<i>>>>]
        \o <<<<"exit_call_expression", p>>>>

(* walk_variable_declaration after enter_variable_declaration: the
   initializer of every declarator that has one *)
RECURSIVE WalkDeclarators(_, _, _)
WalkDeclarators(n, p, i) ==
    IF i > Len(n.kids) THEN <<>>
    ELSE (IF Len(n.kids[i].kids) > 0
          THEN <<<<"enter_expression", p \o <<i, 1>>>>>> ELSE <<>>)
         \o WalkDeclarators(n, p, i + 1)

(* ctx.parent().is_expression_statement() *)
parent_is_expression_statement(p) ==
    Len(p) > 0 /\ NodeAt(program, Front(p)).k = "ExprStmt"

Event(hook, p, before, after) ==
    [hook |-> hook, path |-> p, before |-> before, after |-> after,
     flag |-> in_define_export, was |-> changed]

----------------------------------------------------------------------------
(* The programs the pass is run on *)

UG == Ident("undefined", "global")
UL == Ident("undefined", "local")
X == Ident("x", "global")
CallF == Call(Ident("f", "global"), <<>>)

Atoms == {UG, UL, X, BoolLit("true"), BoolLit("false"), NumLit("0"), NumLit("1"),
          StrLit("undefined"), StrLit("other")}

Unaries ==
    {Unary(op, e) : op \in {"void", "typeof", "!"},
                    e \in {UG, UL, X, NumLit("1"), BoolLit("true")}}
        \cup {Unary("void", CallF), Unary("void", StrLit("s"))}

Operands ==
    {Unary("typeof", UG), Unary("typeof", UL), Unary("typeof", X),
     Unary("typeof", NumLit("1")), Unary("void", X),
     StrLit("undefined"), StrLit("other"), UG, BoolLit("true")}

Binaries == {Binary(op, l, r) : op \in {"==", "===", "!="}, l \in Operands, r \in Operands}

SeqsUpTo(S, n) == UNION {[1..m -> S] : m \in 0..n}

Callees ==
    {StaticMember(Ident("Object", "global"), "defineProperty"),
     ComputedMember(Ident("Object", "global"), "defineProperty"),
     StaticMember(Ident("Object", "global"), "freeze"),
     StaticMember(X, "defineProperty")}

RestArgs == {BoolLit("true"), CallF, Object(<<BoolLit("false")>>), UG}

Calls ==
    {Call(c, <<first>> \o rest) :
        c \in Callees, first \in {Ident("exports", "global"), X, StrLit("exports")},
        rest \in SeqsUpTo(RestArgs, MaxArgs)}

Inits == {<<>>, <<UG>>, <<UL>>, <<Unary("void", NumLit("1"))>>,
          <<Unary("void", CallF)>>, <<BoolLit("true")>>}

VarDecls ==
    {VarDecl(kind, inits) : kind \in {"var", "let", "const"},
                            inits \in SeqsUpTo(Inits, MaxDeclarators) \ {<<>>}}

Returns == {Return(<<e>>) : e \in Atoms \cup Unaries} \cup {Return(<<>>)}

Targets ==
    {ExprStmt(Update(Target("undefined", "global"))),
     ExprStmt(Assign(Target("undefined", "global"), UG)),
     ExprStmt(Assign(Target("undefined", "local"), UL)),
     ForIn(Target("undefined", "global"), Object(<<>>), Block(<<>>)),
     ForIn(Target("undefined", "global"), UG, Block(<<ExprStmt(UG)>>))}

Simple ==
    {Return(<<UG>>), ExprStmt(BoolLit("true")), VarDecl("var", <<<<UG>>>>),
     FunctionDecl(<<Return(<<UL>>)>>), Mk("ClassDecl", "C", "", <<>>)}

Bodies ==
    Simple \cup {Block(<<>>)}
        \cup {Block(<<s, t>>) : s \in Simple \cup {Block(<<ExprStmt(X)>>)},
                                t \in {ExprStmt(X), VarDecl("let", <<<<>>>>),
                                       Block(<<Return(<<>>)>>)}}

RECURSIVE Wrap(_, _)
Wrap(s, d) == IF d = 0 THEN s ELSE Block(<<Wrap(s, d - 1)>>)

Blocks == {Wrap(s, d) : s \in Bodies, d \in 0..MaxBlockDepth}

Statements ==
    {ExprStmt(e) : e \in Binaries \cup Calls \cup Atoms}
        \cup {ExprStmt(Unary("!", c)) : c \in Calls}
        \cup VarDecls \cup Returns \cup Targets \cup Blocks
        \cup {If(X, b) : b \in Blocks}

Programs == {Program(<<s>>) : s \in Statements}

----------------------------------------------------------------------------
(* PeepholeSubstituteAlternateSyntax: construction, build and the hooks *)

NoEvent == [hook |-> "new", path |-> <<>>, before |-> Program(<<>>),
            after |-> Program(<<>>), flag |-> FALSE, was |-> FALSE]

(* an ArrowFunctionExpression: its `expression` flag and body.statements *)
Arrow(expression, statements) == [expression |-> expression, statements |-> statements]

NoArrow == Arrow(FALSE, <<>>)

TIdle ==
    /\ x0_typescript = FALSE
    /\ thook = "none"
    /\ tcalls = <<>>
    /\ tversion = 0
    /\ is_typescript = FALSE
    /\ arrow_in = NoArrow
    /\ arrow = NoArrow
    /\ tstate = "idle"

(* An oxc_module_lexer::ImportSpecifier, as far as `d` and `a` go: the
   ImportType with the start of a dynamic import, and the optional
   assertion start.  A u32 is the pair <<high, low>> of its 16-bit halves. *)
ImportSpecifier(d, start, a) == [d |-> d, start |-> start, a |-> a]

NoImport == ImportSpecifier("none", <<0, 0>>, <<>>)

LIdle ==
    /\ import_specifier = NoImport
    /\ dto = <<>>

(* PeepholeSubstituteAlternateSyntax::new, and the parsed program *)
Init ==
    /\ options \in [booleans : BOOLEAN, typeofs : BOOLEAN]
    /\ in_define_export = FALSE
    /\ changed = FALSE
    /\ program \in Programs
    /\ todo = <<>>
    /\ nbuilds = 0
    /\ ev = NoEvent
    /\ TIdle
    /\ LIdle

build_keep_changed ==
    /\ todo = <<>>
    /\ nbuilds < MaxBuilds
    /\ changed' = changed
    /\ todo' = WalkStatement(program, <<>>)
    /\ nbuilds' = nbuilds + 1
    /\ ev' = Event("build", <<>>, program, program)
    /\ UNCHANGED <<options, in_define_export, program, tvars, lvars>>

(* CompressorPass::build: reset `changed`, then walk the program *)
build ==
    /\ todo = <<>>
    /\ nbuilds < MaxBuilds
    /\ changed' = FALSE
    /\ todo' = WalkStatement(program, <<>>)
    /\ nbuilds' = nbuilds + 1
    /\ ev' = Event("build", <<>>, program, program)
    /\ UNCHANGED <<options, in_define_export, program, tvars, lvars>>

enter_statement ==
    /\ todo # <<>> /\ Head(todo)[1] = "enter_statement"
    /\ LET p == Head(todo)[2]
           stmt == NodeAt(program, p)
           r == compress_block(stmt)
       IN /\ program' = ReplaceAt(program, p, r.stmt)
          /\ changed' = (changed \/ r.changed)
          /\ todo' = WalkStatement(r.stmt, p) \o Tail(todo)
          /\ ev' = Event("enter_statement", p, stmt, r.stmt)
    /\ UNCHANGED <<options, in_define_export, nbuilds, tvars, lvars>>

exit_return_statement ==
    /\ todo # <<>> /\ Head(todo)[1] = "exit_return_statement"
    /\ LET p == Head(todo)[2]
           stmt == NodeAt(program, p)
           r == compress_return_statement(stmt)
       IN /\ program' = ReplaceAt(program, p, r.stmt)
          /\ changed' = (changed \/ r.changed)
          /\ ev' = Event("exit_return_statement", p, stmt, r.stmt)
    /\ todo' = Tail(todo)
    /\ UNCHANGED <<options, in_define_export, nbuilds, tvars, lvars>>

enter_variable_declaration ==
    /\ todo # <<>> /\ Head(todo)[1] = "enter_variable_declaration"
    /\ LET p == Head(todo)[2]
           decl == NodeAt(program, p)
           rs == [i \in 1..Len(decl.kids) |-> compress_variable_declarator(decl.kids[i])]
           new == [decl EXCEPT !.kids = [i \in 1..Len(decl.kids) |-> rs[i].decl]]
       IN /\ program' = ReplaceAt(program, p, new)
          /\ changed' = (changed \/ \E i \in 1..Len(decl.kids) : rs[i].changed)
          /\ todo' = WalkDeclarators(new, p, 1) \o Tail(todo)
          /\ ev' = Event("enter_variable_declaration", p, decl, new)
    /\ UNCHANGED <<options, in_define_export, nbuilds, tvars, lvars>>

enter_call_expression ==
    /\ todo # <<>> /\ Head(todo)[1] = "enter_call_expression"
    /\ LET p == Head(todo)[2]
           call_expr == NodeAt(program, p)
       IN /\ in_define_export' =
                IF parent_is_expression_statement(p)
                     /\ is_object_define_property_exports(call_expr)
                THEN TRUE ELSE in_define_export
          /\ todo' = WalkCall(call_expr, p) \o Tail(todo)
          /\ ev' = Event("enter_call_expression", p, call_expr, call_expr)
    /\ UNCHANGED <<options, changed, program, nbuilds, tvars, lvars>>

exit_call_expression ==
    /\ todo # <<>> /\ Head(todo)[1] = "exit_call_expression"
    /\ in_define_export' = FALSE
    /\ LET p == Head(todo)[2]
       IN ev' = Event("exit_call_expression", p, NodeAt(program, p), NodeAt(program, p))
    /\ todo' = Tail(todo)
    /\ UNCHANGED <<options, changed, program, nbuilds, tvars, lvars>>

enter_expression ==
    /\ todo # <<>> /\ Head(todo)[1] = "enter_expression"
    /\ LET p == Head(todo)[2]
           expr == NodeAt(program, p)
           u == compress_undefined(expr)
           new == IF ~u.ret
                  THEN compress_boolean(u.expr, options, in_define_export).expr
                  ELSE u.expr
       IN /\ program' = ReplaceAt(program, p, new)
          /\ todo' = WalkExpression(new, p) \o Tail(todo)
          /\ ev' = Event("enter_expression", p, expr, new)
    /\ UNCHANGED <<options, in_define_export, changed, nbuilds, tvars, lvars>>

exit_binary_expression ==
    /\ todo # <<>> /\ Head(todo)[1] = "exit_binary_expression"
    /\ LET p == Head(todo)[2]
           expr == NodeAt(program, p)
           new == compress_typeof_undefined(expr, options)
       IN /\ program' = ReplaceAt(program, p, new)
          /\ ev' = Event("exit_binary_expression", p, expr, new)
    /\ todo' = Tail(todo)
    /\ UNCHANGED <<options, in_define_export, changed, nbuilds, tvars, lvars>>

Next ==
    \/ build
    \/ enter_statement
    \/ exit_return_statement
    \/ enter_variable_declaration
    \/ enter_call_expression
    \/ exit_call_expression
    \/ enter_expression
    \/ exit_binary_expression

Spec == Init /\ [][Next]_vars

----------------------------------------------------------------------------
(* Properties of the peephole pass *)

(* an expression that resolves to the intrinsic `undefined` *)
Intrinsic(e) ==
    \/ e = [k |-> "Ident", a |-> "undefined", b |-> "global", sp |-> e.sp, kids |-> <<>>]
    \/ e.k = "Unary" /\ e.a = "void" /\ Len(e.kids) = 1
          /\ e.kids[1].k \in {"BoolLit", "NumLit", "StrLit"}

(* an identifier named `undefined` that must stay: a reference to a local
   symbol, or a binding / assignment target *)
Protected(n) ==
    /\ n.a = "undefined"
    /\ \/ n.k = "Ident" /\ n.b = "local"
       \/ n.k = "Target"

ProtectedPaths(t) == {p \in Paths(t) : Protected(NodeAt(t, p))}

(* C1: on expression enter, an identifier named `undefined` becomes `void 0`
   only when it is an expression-position reference that resolves to the
   global intrinsic; a reference to a local symbol and every identifier in
   a binding or assignment-target position are left as they are. *)
C1_ShadowingSafety ==
    ev.hook = "enter_expression" =>
        /\ ev.before.k \in ExprKinds
        /\ (ev.before.k = "Ident" /\ ev.before.a = "undefined" /\ ev.after # ev.before)
              => ev.before.b = "global"
        /\ Protected(ev.before) => ev.after = ev.before
        /\ ProtectedPaths(ev.after) = ProtectedPaths(ev.before)
        /\ \A p \in ProtectedPaths(ev.before) : NodeAt(ev.after, p) = NodeAt(ev.before, p)

C1_Witness ==
    /\ ev.hook = "enter_expression"
    /\ ev.before = UL
    /\ ev.after = UL
    /\ \E p \in Paths(program) : NodeAt(program, p) = Target("undefined", "local")

(* C2: on return-statement exit the argument is dropped exactly when it
   resolves to the intrinsic `undefined` (an unshadowed reference named
   `undefined`, or `void <literal>`); in every other case, a reference to a
   local binding named `undefined` included, the statement is unchanged. *)
C2_ReturnArgument ==
    (ev.hook = "exit_return_statement" /\ Len(ev.before.kids) > 0) =>
        /\ (ev.after.kids = <<>>) <=> Intrinsic(ev.before.kids[1])
        /\ ev.after.kids # <<>> => ev.after = ev.before

HoldsDeclaration(stmt) ==
    stmt.k = "Block"
        /\ \E i \in 1..Len(stmt.kids) : stmt.kids[i].k \in {"VarDecl", "FunctionDecl", "ClassDecl"}

DeclarationBlocks(t) == Cardinality({p \in Paths(t) : HoldsDeclaration(NodeAt(t, p))})

(* C3: a block statement whose body holds a declaration statement is never
   replaced by its content, at any level of the recursive unwrap. *)
C3_AnnexBBlocks ==
    ev.hook = "enter_statement" =>
        /\ HoldsDeclaration(ev.before) => ev.after = ev.before
        /\ DeclarationBlocks(ev.after) = DeclarationBlocks(ev.before)

C3_Witness ==
    /\ ev.hook = "enter_statement"
    /\ ev.before # ev.after
    /\ ev.before.kids[1].k = "Block"
    /\ HoldsDeclaration(ev.after)

IsDefineExportCall(q) ==
    LET c == NodeAt(program, q) IN
    /\ c.k = "Call"
    /\ Len(q) > 0 /\ NodeAt(program, Front(q)).k = "ExprStmt"
    /\ Len(c.kids) >= 2 /\ c.kids[2].k = "Ident" /\ c.kids[2].a = "exports"
    /\ c.kids[1].k = "StaticMember" /\ c.kids[1].a = "defineProperty"
    /\ c.kids[1].kids[1].k = "Ident" /\ c.kids[1].kids[1].a = "Object"

InsideDefineExport(p) ==
    \E n \in 0..(Len(p) - 1) : IsDefineExportCall(SubSeq(p, 1, n))

(* C4: with `booleans` enabled, no boolean literal visited between the enter
   and the exit of an expression-statement call
   `Object.defineProperty(exports, ...)` is rewritten, whatever was visited
   before it inside the call. *)
C4_DefineExportGuard ==
    (/\ options.booleans
     /\ ev.hook = "enter_expression"
     /\ ev.before.k = "BoolLit"
     /\ InsideDefineExport(ev.path)) => ev.after = ev.before

IsTypeofIdent(e) == e.k = "Unary" /\ e.a = "typeof" /\ e.kids[1].k = "Ident"

IsUndefinedString(e) == e.k = "StrLit" /\ e.a = "undefined"

TypeofGreaterU(id, span) ==
    [k |-> "Binary", a |-> ">", b |-> "", sp |-> span,
     kids |-> <<[k |-> "Unary", a |-> "typeof", b |-> "", sp |-> SPAN, kids |-> <<id>>],
                [k |-> "StrLit", a |-> "u", b |-> "", sp |-> SPAN, kids |-> <<>>]>>]

(* C8: on binary-expression exit, with `typeofs` enabled, the expression
   becomes `typeof IDENT > "u"` (typeof on the left, the span kept) iff its
   operator is `==` or `===`, one operand is the string "undefined" and the
   other is `typeof` of an identifier reference as it stands at exit; every
   other binary expression is unchanged, and so is every one with `typeofs`
   disabled.  At exit no operand is `typeof` of an unshadowed `undefined`. *)
C8_TypeofUndefined ==
    ev.hook = "exit_binary_expression" =>
        LET l == ev.before.kids[1]
            r == ev.before.kids[2]
            eq == ev.before.a \in {"==", "==="}
        IN /\ (options.typeofs /\ eq /\ IsUndefinedString(l) /\ IsTypeofIdent(r))
                 => ev.after = TypeofGreaterU(r.kids[1], ev.before.sp)
           /\ (options.typeofs /\ eq /\ IsUndefinedString(r) /\ IsTypeofIdent(l))
                 => ev.after = TypeofGreaterU(l.kids[1], ev.before.sp)
           /\ ~(/\ options.typeofs /\ eq
                /\ \/ IsUndefinedString(l) /\ IsTypeofIdent(r)
                   \/ IsUndefinedString(r) /\ IsTypeofIdent(l))
                 => ev.after = ev.before
           /\ \A e \in {l, r} : IsTypeofIdent(e) => ~Intrinsic(e.kids[1])

C8_Witness ==
    /\ ev.hook = "exit_binary_expression"
    /\ ev.before.a = "==="
    /\ ev.before.kids[1] = Unary("typeof", UL)
    /\ ev.after = TypeofGreaterU(UL, 1)
    /\ NodeAt(program, ev.path) = ev.after

NotNumber(n) ==
    [k |-> "Unary", a |-> "!", b |-> "", sp |-> SPAN,
     kids |-> <<[k |-> "NumLit", a |-> n, b |-> "", sp |-> SPAN, kids |-> <<>>]>>]

(* C9: on expression enter a boolean literal is rewritten iff `booleans` is
   enabled and the define-export flag is clear, `true` to `!0` and `false`
   to `!1`; otherwise it is unchanged; and an expression changed by the
   enter is changed by exactly one of the two rewrites. *)
C9_BooleanRewrite ==
    ev.hook = "enter_expression" =>
        /\ ev.before.k = "BoolLit" =>
              ev.after = IF options.booleans /\ ~ev.flag
                         THEN (IF ev.before.a = "true" THEN NotNumber("0") ELSE NotNumber("1"))
                         ELSE ev.before
        /\ ev.after # ev.before =>
              \/ Intrinsic(ev.before) /\ ev.before.k # "BoolLit" /\ ev.after = void_0
              \/ ev.before.k = "BoolLit" /\ ~Intrinsic(ev.before) /\ ev.after.a = "!"

C9_Witness ==
    /\ ev.hook = "enter_expression"
    /\ ev.before = BoolLit("false")
    /\ ev.after = NotNumber("1")
    /\ NodeAt(program, ev.path) = ev.after

(* C10: on entering a variable declaration, the initializer of a declarator
   is removed iff the declarator is not `const` and the initializer
   resolves to the intrinsic `undefined`; every other declarator is
   unchanged, independently of its neighbours. *)
C10_Initializers ==
    ev.hook = "enter_variable_declaration" =>
        /\ Len(ev.after.kids) = Len(ev.before.kids)
        /\ [ev.after EXCEPT !.kids = <<>>] = [ev.before EXCEPT !.kids = <<>>]
        /\ \A i \in 1..Len(ev.before.kids) :
              LET d == ev.before.kids[i] IN
              ev.after.kids[i] =
                  IF d.a # "const" /\ Len(d.kids) > 0 /\ Intrinsic(d.kids[1])
                  THEN [d EXCEPT !.kids = <<>>]
                  ELSE d

C10_Witness ==
    /\ ev.hook = "enter_variable_declaration"
    /\ ev.before.a = "let"
    /\ Len(ev.before.kids) = 2
    /\ ev.before.kids[1].kids = <<UG>>
    /\ ev.after.kids[1].kids = <<>>
    /\ ev.after.kids[2].kids = <<UL>>

(* C11: the pass is confluent on its own output: a second build on the
   program the first build produced changes no node, and changed() is false
   throughout and after it. *)
C11_SecondBuildStable ==
    nbuilds >= 2 => (ev.after = ev.before /\ ~changed)

C11_Witness ==
    /\ nbuilds = 2
    /\ todo = <<>>
    /\ ~changed
    /\ program = Program(<<If(X, Return(<<>>))>>)

RECURSIVE ChainDepth(_)
ChainDepth(s) ==
    IF s.k = "Block" /\ Len(s.kids) = 1 THEN 1 + ChainDepth(s.kids[1]) ELSE 0

RECURSIVE Chain(_)
Chain(s) ==
    {s} \cup (IF s.k = "Block" /\ Len(s.kids) = 1 THEN Chain(s.kids[1]) ELSE {})

(* C16: after enter_statement the visited statement is never a block whose
   body is exactly one non-declaration statement: a chain of single-statement
   blocks of any depth is replaced by a statement of the chain in this one
   visit; a block with no statement or with two or more is unchanged; and
   the recursion takes at most as many steps as the chain is deep. *)
C16_UnwrapFixpoint ==
    ev.hook = "enter_statement" =>
        /\ ~(/\ ev.after.k = "Block"
             /\ Len(ev.after.kids) = 1
             /\ ev.after.kids[1].k \notin {"VarDecl", "FunctionDecl", "ClassDecl"})
        /\ ev.after \in Chain(ev.before)
        /\ (ev.before.k = "Block" /\ Len(ev.before.kids) # 1) => ev.after = ev.before
        /\ compress_block(ev.before).steps <= ChainDepth(ev.before)
        /\ NodeAt(program, ev.path) = ev.after

C16_Witness ==
    /\ ev.hook = "enter_statement"
    /\ ChainDepth(ev.before) >= 3
    /\ ev.after = Return(<<UG>>)
    /\ compress_block(ev.before).steps = ChainDepth(ev.before)

(* C17: build resets `changed` to false before the walk; during one walk
   `changed` only moves from false to true; `in_define_export` is false
   before the first hook of a build and false again when the walk is
   complete. *)
C17_FlagLifecycle ==
    /\ ev.hook = "build" => (~changed /\ ~in_define_export)
    /\ ev.hook \notin {"new", "build"} => (ev.was => changed)
    /\ todo = <<>> => ~in_define_export

C17_Witness ==
    /\ ev.hook = "build"
    /\ nbuilds = 2
    /\ ev.was
    /\ ~changed
    /\ ~in_define_export

(* C18: `changed` reports every modification: a hook that rewrites a node
   leaves `changed` true, and `changed` becomes true only in a hook that
   rewrote a node. *)
C18_ChangedReportsRewrites ==
    ev.hook \notin {"new", "build"} =>
        /\ ev.after # ev.before => changed
        /\ (changed /\ ~ev.was) => ev.after # ev.before

----------------------------------------------------------------------------
(* TransformerImpl: the composer.  Every hook is a fixed sequence of calls to
   member passes; the lists below are the calls in the order the hook's body
   makes them.  A call to x0_typescript is made only when the pass is Some. *)

(* struct TransformerImpl: the members in declared order *)
DeclaredOrder ==
    <<"x0_typescript", "x1_jsx", "x2_es2022", "x2_es2021", "x2_es2020", "x2_es2019",
      "x2_es2018", "x2_es2017", "x2_es2016", "x3_es2015", "x4_regexp", "common">>

enter_program == <<"x0_typescript", "x1_jsx">>
exit_program == <<"x1_jsx", "x0_typescript", "common">>
enter_big_int_literal == <<"x2_es2020">>
enter_call_expression_t == <<"x0_typescript", "x1_jsx">>
enter_class_body == <<"x0_typescript", "x2_es2022">>
enter_static_block == <<"common">>
exit_static_block == <<"common">>
enter_expression_t ==
    <<"x0_typescript", "x2_es2021", "x2_es2020", "x2_es2018", "x2_es2016",
      "x4_regexp", "common">>
exit_expression == <<"x1_jsx", "x2_es2018", "x2_es2017", "common">>
enter_function == <<"common">>
exit_function_reversed ==
    <<"common", "x2_es2017", "x2_es2018", "x1_jsx", "x0_typescript">>
exit_function == <<"x0_typescript", "x1_jsx", "x2_es2018", "x2_es2017", "common">>
enter_jsx_element_name == <<"common">>
enter_jsx_member_expression_object == <<"common">>
enter_jsx_opening_element == <<"x0_typescript", "x1_jsx">>
exit_method_definition == <<"x0_typescript">>
enter_statements == <<"common", "x0_typescript">>
exit_statements == <<"x0_typescript", "common">>
exit_statement == <<"x0_typescript", "x2_es2018", "x2_es2017">>
enter_statement_t == <<"x0_typescript", "x2_es2018">>
enter_for_of_statement == <<"x0_typescript", "x2_es2018">>
enter_catch_clause == <<"x2_es2019">>

(* the enter hooks whose whole body is the call to the TypeScript pass *)
TypeScriptOnly ==
    {"enter_arrow_function_expression", "enter_variable_declarator",
     "enter_binding_pattern", "enter_class", "enter_ts_module_declaration",
     "enter_simple_assignment_target", "enter_assignment_target",
     "enter_formal_parameter", "enter_jsx_element", "enter_jsx_fragment",
     "enter_method_definition", "enter_new_expression", "enter_property_definition",
     "enter_accessor_property", "enter_tagged_template_expression",
     "enter_declaration", "enter_if_statement", "enter_while_statement",
     "enter_do_while_statement", "enter_for_statement", "enter_for_in_statement",
     "enter_import_declaration", "enter_export_all_declaration",
     "enter_export_named_declaration", "enter_ts_export_assignment"}

EnterHooks ==
    TypeScriptOnly \cup
    {"enter_program", "enter_big_int_literal", "enter_call_expression",
     "enter_class_body", "enter_static_block", "enter_expression", "enter_function",
     "enter_jsx_element_name", "enter_jsx_member_expression_object",
     "enter_jsx_opening_element", "enter_statements", "enter_statement",
     "enter_for_of_statement", "enter_catch_clause"}

ExitHooks ==
    {"exit_program", "exit_static_block", "exit_expression", "exit_function",
     "exit_method_definition", "exit_statements", "exit_statement"}

Forwarded(h) ==
    CASE h = "enter_program" -> enter_program
      [] h = "exit_program" -> exit_program
      [] h = "enter_big_int_literal" -> enter_big_int_literal
      [] h = "enter_call_expression" -> enter_call_expression_t
      [] h = "enter_class_body" -> enter_class_body
      [] h = "enter_static_block" -> enter_static_block
      [] h = "exit_static_block" -> exit_static_block
      [] h = "enter_expression" -> enter_expression_t
      [] h = "exit_expression" -> exit_expression
      [] h = "enter_function" -> enter_function
      [] h = "exit_function" -> exit_function
      [] h = "enter_jsx_element_name" -> enter_jsx_element_name
      [] h = "enter_jsx_member_expression_object" -> enter_jsx_member_expression_object
      [] h = "enter_jsx_opening_element" -> enter_jsx_opening_element
      [] h = "exit_method_definition" -> exit_method_definition
      [] h = "enter_statements" -> enter_statements
      [] h = "exit_statements" -> exit_statements
      [] h = "exit_statement" -> exit_statement
      [] h = "enter_statement" -> enter_statement_t
      [] h = "enter_for_of_statement" -> enter_for_of_statement
      [] h = "enter_catch_clause" -> enter_catch_clause
      [] h \in TypeScriptOnly -> <<"x0_typescript">>

Range(f) == {f[i] : i \in DOMAIN f}

RECURSIVE ForwardAlways(_, _, _)
ForwardAlways(list, repl, version) ==
    IF list = <<>> THEN <<>>
    ELSE LET pass == Head(list) IN
         <<<<pass, version, pass \in repl>>>>
            \o ForwardAlways(Tail(list), repl, IF pass \in repl THEN version + 1 ELSE version)

RECURSIVE ForwardWhilePresent(_, _, _)
ForwardWhilePresent(list, repl, version) ==
    IF list = <<>> THEN <<>>
    ELSE LET pass == Head(list) IN
         IF pass = "x0_typescript" /\ ~x0_typescript
         THEN ForwardWhilePresent(Tail(list), repl, version)
         ELSE IF pass \in repl THEN <<<<pass, version, TRUE>>>>
         ELSE <<<<pass, version, FALSE>>>> \o ForwardWhilePresent(Tail(list), repl, version)

(* The body of a hook: the calls are made one after the other, with no test
   between them but `if let Some(typescript)`.  A member pass in `repl`
   replaces the node it is handed; a call is recorded with the pass, how many
   times the node had been replaced when the call was made, and whether the
   pass replaced it. *)
RECURSIVE Forward(_, _, _)
Forward(list, repl, version) ==
    IF list = <<>> THEN <<>>
    ELSE LET pass == Head(list) IN
         IF pass = "x0_typescript" /\ ~x0_typescript
         THEN Forward(Tail(list), repl, version)
         ELSE <<<<pass, version, pass \in repl>>>>
                \o Forward(Tail(list), repl, IF pass \in repl THEN version + 1 ELSE version)

Replacements(calls) == Cardinality({i \in 1..Len(calls) : calls[i][3]})

(* ctx.ast.statement_return(SPAN, Some(expression)) *)
statement_return(expression) == Syn("Return", "", "", <<expression>>)

ArrowStatements == {ExprStmt(X), ExprStmt(CallF), Return(<<X>>), Block(<<>>)}

(* the arrows the walk may reach exit with: the member passes may have put
   any statements into the body *)
Arrows ==
    {Arrow(e, b) : e \in BOOLEAN, b \in SeqsUpTo(ArrowStatements, MaxStatements)}

wrap_last_statement_unchecked(a) ==
    IF a.expression /\ Len(a.statements) > 1
    THEN LET n == Len(a.statements)
             popped == SubSeq(a.statements, 1, n - 1)
             statement == a.statements[n]
         IN [arrow |-> Arrow(FALSE,
                             Append(popped,
                                    IF statement.k = "ExprStmt"
                                    THEN statement_return(statement.kids[1])
                                    ELSE statement)),
             panic |-> FALSE]
    ELSE [arrow |-> a, panic |-> FALSE]

wrap_last_statement_keep_flag(a) ==
    IF a.expression /\ Len(a.statements) > 1
    THEN LET n == Len(a.statements)
             popped == SubSeq(a.statements, 1, n - 1)
             statement == a.statements[n]
         IN IF statement.k = "ExprStmt"
            THEN [arrow |-> Arrow(TRUE,
                                  Append(popped, statement_return(statement.kids[1]))),
                  panic |-> FALSE]
            ELSE [arrow |-> Arrow(TRUE, popped), panic |-> TRUE]
    ELSE [arrow |-> a, panic |-> FALSE]

(* The body of exit_arrow_function_expression: `() => x` with statements
   added becomes `() => { ...; return x; }`.  The last statement is popped
   before it is matched, so a panic leaves the body one statement shorter. *)
wrap_last_statement(a) ==
    IF a.expression /\ Len(a.statements) > 1
    THEN LET n == Len(a.statements)
             popped == SubSeq(a.statements, 1, n - 1)
             statement == a.statements[n]
         IN IF statement.k = "ExprStmt"
            THEN [arrow |-> Arrow(FALSE,
                                  Append(popped, statement_return(statement.kids[1]))),
                  panic |-> FALSE]
            ELSE [arrow |-> Arrow(TRUE, popped), panic |-> TRUE]
    ELSE [arrow |-> a, panic |-> FALSE]

PIdle ==
    /\ options = [booleans |-> FALSE, typeofs |-> FALSE]
    /\ in_define_export = FALSE
    /\ changed = FALSE
    /\ program = Program(<<>>)
    /\ todo = <<>>
    /\ nbuilds = 0
    /\ ev = NoEvent

(* Transformer::build_with_symbols_and_scopes: x0_typescript is Some iff the
   program's source type is TypeScript *)
TInit ==
    /\ is_typescript \in BOOLEAN
    /\ x0_typescript = is_typescript
    /\ thook = "none"
    /\ tcalls = <<>>
    /\ tversion = 0
    /\ arrow_in = NoArrow
    /\ arrow = NoArrow
    /\ tstate = "walking"
    /\ PIdle
    /\ LIdle

(* the walk invokes an enter hook of the composer on a node *)
EnterHook ==
    \E h \in EnterHooks : \E repl \in SUBSET Range(Forwarded(h)) :
        /\ tstate = "walking"
        /\ thook' = h
        /\ tcalls' = Forward(Forwarded(h), repl, 0)
        /\ tversion' = Replacements(tcalls')
        /\ arrow_in' = NoArrow
        /\ arrow' = NoArrow
        /\ UNCHANGED <<x0_typescript, is_typescript, tstate, pvars, lvars>>

(* the walk invokes an exit hook of the composer on a node *)
ExitHook ==
    \E h \in ExitHooks : \E repl \in SUBSET Range(Forwarded(h)) :
        /\ tstate = "walking"
        /\ thook' = h
        /\ tcalls' = Forward(Forwarded(h), repl, 0)
        /\ tversion' = Replacements(tcalls')
        /\ arrow_in' = NoArrow
        /\ arrow' = NoArrow
        /\ UNCHANGED <<x0_typescript, is_typescript, tstate, pvars, lvars>>

(* the walk invokes exit_arrow_function_expression, which forwards to no
   member pass; a panic (unreachable!) unwinds out of traverse_mut *)
exit_arrow_function_expression ==
    \E a \in Arrows :
        LET r == wrap_last_statement(a) IN
        /\ tstate = "walking"
        /\ thook' = "exit_arrow_function_expression"
        /\ tcalls' = <<>>
        /\ tversion' = 0
        /\ arrow_in' = a
        /\ arrow' = r.arrow
        /\ tstate' = IF r.panic THEN "panicked" ELSE "walking"
        /\ UNCHANGED <<x0_typescript, is_typescript, pvars, lvars>>

(* traverse_mut returns and build_with_symbols_and_scopes makes the
   TransformerReturn *)
build_with_symbols_and_scopes ==
    /\ tstate = "walking"
    /\ tstate' = "returned"
    /\ UNCHANGED <<x0_typescript, is_typescript, thook, tcalls, tversion,
                   arrow_in, arrow, pvars, lvars>>

TNext ==
    \/ EnterHook
    \/ ExitHook
    \/ exit_arrow_function_expression
    \/ build_with_symbols_and_scopes

TSpec == TInit /\ [][TNext]_vars

----------------------------------------------------------------------------
(* napi/parser module_lexer: ImportSpecifier -> ModuleLexerImportSpecifier.
   An i64 is the sequence of its four 16-bit limbs in two's complement, the
   most significant first. *)

Limb == 2 ^ 16

Halves == {0, 1, 2 ^ 15 - 1, 2 ^ 15, Limb - 1}

U32 == {<<high, low>> : high \in Halves, low \in Halves}

(* the i64 literals -1, -2, -3 *)
I64(n) == <<Limb - 1, Limb - 1, Limb - 1, Limb + n>>

as_i32_as_i64(u) ==
    LET sign == IF u[1] >= 2 ^ 15 THEN Limb - 1 ELSE 0
    IN <<sign, sign, u[1], u[2]>>

(* `start as i64` on a u32: zero extension *)
as_i64(u) == <<0, 0, u[1], u[2]>>

ImportTypes == {"DynamicImport", "StaticImport", "ImportMeta", "ExportStar"}

ImportSpecifiers ==
    {ImportSpecifier("DynamicImport", start, a) :
        start \in U32, a \in {<<>>} \cup {<<u>> : u \in U32}}
    \cup {ImportSpecifier(d, <<0, 0>>, a) :
        d \in ImportTypes \ {"DynamicImport"}, a \in {<<>>} \cup {<<u>> : u \in U32}}

(* From<oxc_module_lexer::ImportSpecifier>::from, fields d and a *)
From(i) ==
    [d |-> CASE i.d = "DynamicImport" -> as_i64(i.start)
             [] i.d = "StaticImport" -> I64(-1)
             [] i.d = "ImportMeta" -> I64(-2)
             [] i.d = "ExportStar" -> I64(-3),
     a |-> IF i.a = <<>> THEN I64(-1) ELSE as_i64(i.a[1])]

LInit ==
    /\ import_specifier \in ImportSpecifiers
    /\ dto = <<>>
    /\ PIdle
    /\ TIdle

module_lexer ==
    /\ dto = <<>>
    /\ dto' = <<From(import_specifier)>>
    /\ UNCHANGED <<import_specifier, pvars, tvars>>

LNext == module_lexer

LSpec == LInit /\ [][LNext]_vars

----------------------------------------------------------------------------

----------------------------------------------------------------------------
(* Properties of the composer *)

Index(pass) == CHOOSE i \in 1..Len(DeclaredOrder) : DeclaredOrder[i] = pass

InDeclaredOrder(calls) ==
    \A i, j \in 1..Len(calls) : i < j => Index(calls[i][1]) < Index(calls[j][1])

InReverseOrder(calls) ==
    \A i, j \in 1..Len(calls) : i < j => Index(calls[i][1]) > Index(calls[j][1])

Present(list) == SelectSeq(list, LAMBDA x : x # "x0_typescript" \/ x0_typescript)

(* C5: for every enter hook the composer forwards, the member passes that
   implement it are called in the declared order TypeScript, JSX, ES2022 ..
   ES2015, RegExp, Common. *)
C5_EnterOrder == thook \in EnterHooks => InDeclaredOrder(tcalls)

(* C6 as stated: for every exit hook the composer forwards, the member
   passes are called in the reverse of the declared order, Common first and
   TypeScript last. *)
C6_ExitReverseOrder == thook \in ExitHooks => InReverseOrder(tcalls)

(* C6 as amended: for every exit hook the composer forwards, the member
   passes are called in the declared order, as for the enter hooks, except
   in exit_program, which calls JSX, then TypeScript, then Common. *)
C6_ExitDeclaredOrder ==
    thook \in ExitHooks =>
        IF thook = "exit_program"
        THEN [i \in 1..Len(tcalls) |-> tcalls[i][1]]
                = Present(<<"x1_jsx", "x0_typescript", "common">>)
        ELSE InDeclaredOrder(tcalls)

C6_Witness ==
    /\ thook = "exit_function"
    /\ x0_typescript
    /\ Len(tcalls) = 5
    /\ tcalls[1][1] = "x0_typescript"
    /\ tcalls[5][1] = "common"

(* C7 as stated: once a member pass has replaced or removed the node during
   its enter hook, no later member pass receives the enter hook for it. *)
C7_SkippedAfterRemoval ==
    thook \in EnterHooks =>
        \A i, j \in 1..Len(tcalls) : i < j => ~tcalls[i][3]

(* C7 as amended: the composer forwards an enter hook to every member pass
   that implements it, whether or not an earlier pass replaced the node (the
   only test is whether the TypeScript pass exists); a later pass receives
   the node as the earlier passes left it. *)
C7_ForwardedUnconditionally ==
    thook \in EnterHooks =>
        /\ [i \in 1..Len(tcalls) |-> tcalls[i][1]] = Present(Forwarded(thook))
        /\ \A i \in 1..Len(tcalls) :
              tcalls[i][2] = Cardinality({j \in 1..(i - 1) : tcalls[j][3]})

C7_Witness ==
    /\ thook = "enter_statement"
    /\ tcalls = <<<<"x0_typescript", 0, TRUE>>, <<"x2_es2018", 1, FALSE>>>>

ExitArrow == thook = "exit_arrow_function_expression"

Last(stmts) == stmts[Len(stmts)]

(* C12: after exit_arrow_function_expression, an arrow whose expression
   flag is still set has exactly one body statement (given it had at least
   one); an arrow that reached exit with the flag set and more than one
   statement has the flag cleared, as many statements as before, the
   statements before the last unchanged and in order, and as last statement
   `return E`, E being the expression of the former last expression
   statement; an arrow with the flag clear or a single statement is
   unchanged. *)
C12_ArrowBodyNormalized ==
    (ExitArrow /\ tstate # "panicked") =>
        /\ (arrow.expression /\ Len(arrow_in.statements) >= 1)
              => Len(arrow.statements) = 1
        /\ (arrow_in.expression /\ Len(arrow_in.statements) > 1) =>
              /\ ~arrow.expression
              /\ Len(arrow.statements) = Len(arrow_in.statements)
              /\ \A i \in 1..(Len(arrow_in.statements) - 1) :
                    arrow.statements[i] = arrow_in.statements[i]
              /\ Last(arrow_in.statements).k = "ExprStmt"
              /\ Last(arrow.statements).k = "Return"
              /\ Last(arrow.statements).kids = <<Last(arrow_in.statements).kids[1]>>
        /\ (~arrow_in.expression \/ Len(arrow_in.statements) = 1) => arrow = arrow_in

C12_Witness ==
    /\ ExitArrow
    /\ arrow_in = Arrow(TRUE, <<Block(<<>>), ExprStmt(CallF), ExprStmt(X)>>)
    /\ arrow = Arrow(FALSE, <<Block(<<>>), ExprStmt(CallF), statement_return(X)>>)
    /\ tstate = "walking"

(* C13 as stated: when arrow-function exit is reached for an arrow whose
   expression flag is set and whose last (or sole) body statement is not an
   expression statement, the transformation aborts: the walk does not
   continue and build_with_symbols_and_scopes returns no TransformerReturn. *)
C13_AbortOnLastOrSole ==
    (/\ ExitArrow
     /\ arrow_in.expression
     /\ Len(arrow_in.statements) >= 1
     /\ Last(arrow_in.statements).k # "ExprStmt")
        => (tstate = "panicked" /\ ~ENABLED TNext)

(* C13 as amended: the transformation aborts when arrow-function exit is
   reached for an arrow whose expression flag is set, whose body has more
   than one statement and whose last statement is not an expression
   statement: the walk does not continue and no TransformerReturn is made;
   and it aborts in no other case: an arrow whose sole statement is not an
   expression statement is left as it is and the walk goes on. *)
C13_AbortOnLastOfSeveral ==
    /\ (/\ ExitArrow
        /\ arrow_in.expression
        /\ Len(arrow_in.statements) > 1
        /\ Last(arrow_in.statements).k # "ExprStmt")
          => (tstate = "panicked" /\ ~ENABLED TNext)
    /\ (/\ ExitArrow
        /\ arrow_in.expression
        /\ Len(arrow_in.statements) = 1)
          => (tstate # "panicked" /\ arrow = arrow_in)
    /\ tstate = "panicked" =>
          (/\ ExitArrow
           /\ arrow_in.expression
           /\ Len(arrow_in.statements) > 1
           /\ Last(arrow_in.statements).k # "ExprStmt")

C13_Witness ==
    /\ ExitArrow
    /\ arrow_in = Arrow(TRUE, <<ExprStmt(X), Return(<<X>>)>>)
    /\ tstate = "panicked"

(* C15: the TypeScript pass is present iff the program's source type is
   TypeScript; when it is absent no hook calls it, and every other pass is
   called by each hook exactly as for a TypeScript program: the same passes
   in the same order. *)
C15_TypeScriptPresence ==
    /\ x0_typescript = is_typescript
    /\ ~is_typescript => \A i \in 1..Len(tcalls) : tcalls[i][1] # "x0_typescript"
    /\ thook \in EnterHooks \cup ExitHooks =>
          SelectSeq([i \in 1..Len(tcalls) |-> tcalls[i][1]],
                    LAMBDA x : x # "x0_typescript")
            = SelectSeq(Forwarded(thook), LAMBDA x : x # "x0_typescript")

C15_Witness ==
    /\ ~is_typescript
    /\ thook = "enter_expression"
    /\ Len(tcalls) = Len(enter_expression_t) - 1
    /\ tcalls[1][1] = "x2_es2021"
    /\ tcalls[1][3]

(* x >= 0 on an i64: the sign bit is clear *)
NonNegative(x) == x[1] < 2 ^ 15

KindOf(d) ==
    IF NonNegative(d) THEN "DynamicImport"
    ELSE IF d = I64(-1) THEN "StaticImport"
    ELSE IF d = I64(-2) THEN "ImportMeta"
    ELSE IF d = I64(-3) THEN "ExportStar"
    ELSE "none"

(* C14: in the import DTO, d is the start offset of a dynamic import, -1 for
   a static import, -2 for import.meta and -3 for export *, and a is the
   assertion start or -1; the u32 offsets are widened without loss, so
   d >= 0 iff the import is dynamic and a >= 0 iff an assertion is present,
   for every offset of the u32 range, and the kind of the import is
   recoverable from d. *)
C14_Discriminator ==
    dto # <<>> =>
        LET i == import_specifier
            o == dto[1]
        IN /\ i.d = "DynamicImport" => (o.d[1] = 0 /\ o.d[2] = 0 /\ <<o.d[3], o.d[4]>> = i.start)
           /\ i.d = "StaticImport" => o.d = I64(-1)
           /\ i.d = "ImportMeta" => o.d = I64(-2)
           /\ i.d = "ExportStar" => o.d = I64(-3)
           /\ i.a # <<>> => (o.a[1] = 0 /\ o.a[2] = 0 /\ <<o.a[3], o.a[4]>> = i.a[1])
           /\ i.a = <<>> => o.a = I64(-1)
           /\ NonNegative(o.d) <=> i.d = "DynamicImport"
           /\ NonNegative(o.a) <=> i.a # <<>>
           /\ KindOf(o.d) = i.d

C14_Witness ==
    /\ dto # <<>>
    /\ import_specifier.d = "DynamicImport"
    /\ import_specifier.start = <<Limb - 1, Limb - 1>>
    /\ import_specifier.a = <<<<2 ^ 15, 0>>>>
    /\ NonNegative(dto[1].d)
    /\ NonNegative(dto[1].a)

====
